---- MODULE Spec2Model ----
(***************************************************************************)
(* A model of src/main.py: the rhyme-scheme parser, the reversed Markov    *)
(* chain and the poem composer (MarkovPoem.generate_poem / get_rhyme).     *)
(*                                                                         *)
(* A word is a sequence of one-character strings, so that lower() and      *)
(* clean_for_rhyme are computed character by character as the code does.   *)
(* A text is a sequence of lines and a line a sequence of tokens (the      *)
(* result of splitting the line at whitespace).                            *)
(***************************************************************************)
EXTENDS Integers, Sequences, FiniteSets, TLC

VARIABLES
    texts,          \* the corpus handed to ReverseMarkovChain(texts)
    scheme_arg,     \* from_rhyme_scheme's rhyme_scheme argument
    lengths_arg,    \* from_rhyme_scheme's line_lengths argument (int or list)
    chaindict,      \* ReverseMarkovChain.chaindict
    endings,        \* ReverseMarkovChain.endings
    settings,       \* MarkovPoem.settings (a PoemSettings)
    used_rhymes,    \* MarkovPoem.used_rhymes
    rhymes,         \* generate_poem's local dict: line index -> Optional word
    line_num,       \* generate_poem's loop index
    end,            \* generate_poem's local: the end word of the current line
    line,           \* generate_poem's local: the generated line
    output,         \* the items the generator has yielded, in order
    sentence,       \* generate_sentence's local list
    curr_word,      \* generate_sentence's local
    length,         \* generate_sentence's length argument
    step,           \* generate_sentence's loop: iterations completed
    word,           \* get_rhyme's local: the cleaned query word
    res,            \* get_rhyme's local: the candidates of the latest answer
    ret,            \* get_rhyme's return value (Optional word)
    calls,          \* the service's log: the relations queried for the current line
    poems,          \* how many times generate_poem was started on this composer
    exc,            \* the exception that left the program, "" when none
    pc              \* the position of the program

vars == <<texts, scheme_arg, lengths_arg, chaindict, endings, settings,
          used_rhymes, rhymes, line_num, end, line, output, sentence,
          curr_word, length, step, word, res, ret, calls, poems, exc, pc>>

(***************************************************************************)
(* Bounds of the model.                                                    *)
(***************************************************************************)
MaxSchemeLen == 3
MaxLineLen == 2
MaxCands == 2
MaxPoems == 2

(***************************************************************************)
(* Characters and words.                                                   *)
(***************************************************************************)
UpperLetters ==
    <<"A","B","C","D","E","F","G","H","I","J","K","L","M",
      "N","O","P","Q","R","S","T","U","V","W","X","Y","Z">>

LowerLetters ==
    <<"a","b","c","d","e","f","g","h","i","j","k","l","m",
      "n","o","p","q","r","s","t","u","v","w","x","y","z">>

\* string.ascii_letters
AsciiLetters ==
    {UpperLetters[i] : i \in 1..26} \cup {LowerLetters[i] : i \in 1..26}

\* string.punctuation (without the backquote, which the words of the model
\* do not contain)
Punctuation ==
    {"!", "\"", "#", "$", "%", "&", "'", "(", ")", "*", "+", ",", "-", ".",
     "/", ":", ";", "<", "=", ">", "?", "@", "[", "\\", "]", "^", "_", "{",
     "|", "}", "~"}

\* str.lower() on one character
LowerChar(c) ==
    IF \E i \in 1..26 : UpperLetters[i] = c
    THEN LowerLetters[CHOOSE i \in 1..26 : UpperLetters[i] = c]
    ELSE c

\* str.lower()
Lower(w) == [i \in 1..Len(w) |-> LowerChar(w[i])]

Last(s) == s[Len(s)]

Front(s) == SubSeq(s, 1, Len(s) - 1)

\* sentence[::-1]
Reverse(s) == [i \in 1..Len(s) |-> s[Len(s) + 1 - i]]

RECURSIVE LStrip(_)
LStrip(w) ==
    IF Len(w) > 0 /\ w[1] \in Punctuation THEN LStrip(Tail(w)) ELSE w

RECURSIVE RStrip(_)
RStrip(w) ==
    IF Len(w) > 0 /\ Last(w) \in Punctuation THEN RStrip(Front(w)) ELSE w

\* word.strip(string.punctuation)
Strip(w) == RStrip(LStrip(w))

\* word.endswith(suffix)
EndsWith(w, suffix) ==
    /\ Len(w) >= Len(suffix)
    /\ SubSeq(w, Len(w) - Len(suffix) + 1, Len(w)) = suffix

\* word.removesuffix(suffix)
RemoveSuffix(w, suffix) ==
    IF EndsWith(w, suffix) THEN SubSeq(w, 1, Len(w) - Len(suffix)) ELSE w

\* word.replace(old, new): the occurrences of old, left to right, not overlapping
RECURSIVE Replace(_, _, _)
Replace(w, old, new) ==
    IF Len(w) < Len(old) THEN w
    ELSE IF SubSeq(w, 1, Len(old)) = old
         THEN new \o Replace(SubSeq(w, Len(old) + 1, Len(w)), old, new)
         ELSE <<w[1]>> \o Replace(Tail(w), old, new)

\* ''.join(char for char in word if char in string.ascii_letters)
OnlyLetters(w) == SelectSeq(w, LAMBDA c : c \in AsciiLetters)

\* the 'd / 'n branch of clean_for_rhyme
ExpandContraction(w) ==
    IF EndsWith(w, <<"'", "d">>) \/ EndsWith(w, <<"'", "n">>)
    THEN SubSeq(w, 1, Len(w) - 2) \o <<"e">> \o <<Last(w)>>
    ELSE w

\* MarkovPoem.clean_for_rhyme
clean_for_rhyme(w) ==
    OnlyLetters(
        Replace(
            Replace(ExpandContraction(RemoveSuffix(Strip(w), <<"'", "s", "t">>)),
                    <<"o", "'", "e">>, <<"o", "v", "e">>),
            <<"e", "'", "e">>, <<"e", "v", "e">>))

(***************************************************************************)
(* Python values.                                                          *)
(***************************************************************************)
\* Optional[str]: None is the empty sequence, a word w is <<w>>.
None == <<>>

Some(w) == <<w>>

\* the empty dict
EmptyDict == <<>>

\* d[k] = v
Assign(d, k, v) ==
    [x \in DOMAIN d \cup {k} |-> IF x = k THEN v ELSE d[x]]

(***************************************************************************)
(* parse_rhyme_scheme and PoemSettings.from_rhyme_scheme.                  *)
(***************************************************************************)
\* rhyme_scheme.setdefault(char, []).append(line_num); order is the dict's
\* insertion order of the labels.
SetDefaultAppend(groups, char, n) ==
    IF char \in DOMAIN groups.lists
    THEN [groups EXCEPT !.lists[char] = Append(@, n)]
    ELSE [lists |-> Assign(groups.lists, char, <<n>>),
          order |-> Append(groups.order, char)]

\* the first loop of parse_rhyme_scheme, from character i on
RECURSIVE ScanScheme(_, _, _, _, _)
ScanScheme(scheme, i, n, groups, breaks) ==
    IF i > Len(scheme)
    THEN [line_num |-> n, rhyme_scheme |-> groups, break_lines |-> breaks]
    ELSE IF scheme[i] = "/"
         THEN ScanScheme(scheme, i + 1, n, groups, breaks \cup {n})
         ELSE ScanScheme(scheme, i + 1, n + 1,
                         SetDefaultAppend(groups, scheme[i], n), breaks)

\* A mutant of ZipPairs: every later line of the group is linked to the first.
ZipPairsFanOut(group) ==
    [i \in 1..(Len(group) - 1) |-> <<group[1], group[i + 1]>>]

\* zip(rhyme_group, rhyme_group[1:])
ZipPairs(group) ==
    [i \in 1..(Len(group) - 1) |-> <<group[i], group[i + 1]>>]

\* for line, nxt in pairs: rhyme_map[line] = nxt
RECURSIVE AssignPairs(_, _, _)
AssignPairs(map, pairs, i) ==
    IF i > Len(pairs) THEN map
    ELSE AssignPairs(Assign(map, pairs[i][1], pairs[i][2]), pairs, i + 1)

\* for rhyme_group in rhyme_scheme.values(): ...
RECURSIVE LinkGroups(_, _, _)
LinkGroups(map, groups, g) ==
    IF g > Len(groups.order) THEN map
    ELSE LinkGroups(AssignPairs(map, ZipPairs(groups.lists[groups.order[g]]), 1),
                    groups, g + 1)

parse_rhyme_scheme(scheme) ==
    LET scan == ScanScheme(scheme, 1, 0,
                           [lists |-> EmptyDict, order |-> <<>>], {})
    IN  [line_num    |-> scan.line_num,
         rhyme_map   |-> LinkGroups(EmptyDict, scan.rhyme_scheme, 1),
         break_lines |-> scan.break_lines]

\* A line_lengths argument: an int, or a list of ints.
IntArg(n) == [kind |-> "int", val |-> n]

ListArg(l) == [kind |-> "list", val |-> l]

\* PoemSettings.from_rhyme_scheme
from_rhyme_scheme(rhyme_scheme, line_lengths) ==
    LET parsed == parse_rhyme_scheme(rhyme_scheme)
        lens   == IF line_lengths.kind = "int"
                  THEN [i \in 1..parsed.line_num |-> line_lengths.val]
                  ELSE line_lengths.val
    IN  [line_lengths |-> lens,
         break_lines  |-> parsed.break_lines,
         rhyme_map    |-> parsed.rhyme_map]

(***************************************************************************)
(* ReverseMarkovChain: generate_chain and collect_endings.                 *)
(***************************************************************************)
RECURSIVE Flatten(_)
Flatten(ls) == IF ls = <<>> THEN <<>> ELSE Head(ls) \o Flatten(Tail(ls))

\* words = [word.lower() for word in text.split()]
SplitWords(text) ==
    LET toks == Flatten(text) IN [i \in 1..Len(toks) |-> Lower(toks[i])]

\* chain.setdefault(word, {}).setdefault(prev_word, 0); chain[word][prev_word] += 1
CountPair(chain, prev_word, w) ==
    LET inner == IF w \in DOMAIN chain THEN chain[w] ELSE EmptyDict
        count == IF prev_word \in DOMAIN inner THEN inner[prev_word] ELSE 0
    IN  Assign(chain, w, Assign(inner, prev_word, count + 1))

\* for prev_word, word in zip(words, words[1:]): ...
RECURSIVE CountPairs(_, _, _)
CountPairs(chain, words, i) ==
    IF i >= Len(words) THEN chain
    ELSE CountPairs(CountPair(chain, words[i], words[i + 1]), words, i + 1)

RECURSIVE ChainOver(_, _, _)
ChainOver(chain, ts, t) ==
    IF t > Len(ts) THEN chain
    ELSE ChainOver(CountPairs(chain, SplitWords(ts[t]), 1), ts, t + 1)

\* ReverseMarkovChain.generate_chain
generate_chain(ts) == ChainOver(EmptyDict, ts, 1)

\* the endings of one text: the lower-cased last token of every non-empty line
RECURSIVE LineEndings(_, _)
LineEndings(text, l) ==
    IF l > Len(text) THEN <<>>
    ELSE (IF text[l] # <<>> THEN <<Lower(Last(text[l]))>> ELSE <<>>)
         \o LineEndings(text, l + 1)

RECURSIVE EndingsOver(_, _)
EndingsOver(ts, t) ==
    IF t > Len(ts) THEN <<>>
    ELSE LineEndings(ts[t], 1) \o EndingsOver(ts, t + 1)

\* ReverseMarkovChain.collect_endings
collect_endings(ts) == EndingsOver(ts, 1)

(***************************************************************************)
(* The inputs of the model: words, corpora, schemes, service answers.      *)
(***************************************************************************)
w_The == <<"T", "h", "e">>
w_the == <<"t", "h", "e">>
w_dayc == <<"d", "a", "y", ",">>
w_way == <<"w", "a", "y">>
w_Way == <<"W", "a", "y">>
w_oer == <<"o", "'", "e", "r">>
w_say == <<"s", "a", "y">>
w_warmd == <<"w", "a", "r", "m", "'", "d">>
w_knowst == <<"k", "n", "o", "w", "'", "s", "t">>
w_e1r == <<"e", "'", "e", "r", "1">>

\* "The day,\no'er way\nthe Way"
TextDay == << <<w_The, w_dayc>>, <<w_oer, w_way>>, <<w_the, w_Way>> >>

\* "say\n\nway o'er": "say" ends a line and follows no word
TextSay == << <<w_say>>, <<>>, <<w_way, w_oer>> >>

\* "way": a single word
TextWay == << <<w_way>> >>

\* "warm'd know'st\ne'er1 know'st"
TextOld == << <<w_warmd, w_knowst>>, <<w_e1r, w_knowst>> >>

Corpora ==
    { <<>>, <<TextWay>>, <<TextDay>>, <<TextSay>>, <<TextWay, TextOld>> }

\* The words that occur in some corpus, lower-cased.
Vocabulary ==
    {Lower(w) : w \in {w_The, w_dayc, w_way, w_oer, w_say, w_warmd, w_knowst, w_e1r}}

\* The words the rhyme service answers with.
CandWords == {w_way, w_oer}

SeqsUpTo(S, n) == UNION {[1..k -> S] : k \in 0..n}

SchemeChars == {"a", "b", "/"}

Schemes == SeqsUpTo(SchemeChars, MaxSchemeLen)

\* An answer of the rhyme service: a list of candidates, or a failure
\* (requests.get or res.json() raising).
Failure == [ok |-> FALSE, words |-> <<>>]

Answer(ws) == [ok |-> TRUE, words |-> ws]

Answers == {Failure} \cup {Answer(ws) : ws \in SeqsUpTo(CandWords, MaxCands)}

(***************************************************************************)
(* The state machine.  pc is the position of the program:                  *)
(*   "new"            nothing is built yet                                 *)
(*   "chain"          the chain is built (ReverseMarkovChain.__init__)     *)
(*   "settings"       the settings are built (from_rhyme_scheme)           *)
(*   "ready"          the composer is built (MarkovPoem.__init__)          *)
(*   "loop"           generate_poem, at the head of its for loop           *)
(*   "sentence"       generate_sentence, at the head of its for loop       *)
(*   "after_sentence" generate_sentence has returned                       *)
(*   "get_rhyme"      get_rhyme, at the head of its for loop over urls     *)
(*   "return_rhyme"   get_rhyme is returning ret                           *)
(*   "done"           the generator is exhausted                           *)
(*   "raised"         the exception exc has left the program               *)
(***************************************************************************)
NoSettings == [line_lengths |-> <<>>, break_lines |-> {}, rhyme_map |-> EmptyDict]

\* the urls of get_rhyme, in order
Relations == <<"rel_rhy", "rel_nry">>

UniformLengths == {IntArg(n) : n \in 0..MaxLineLen}

ExplicitLengths == {ListArg(l) : l \in SeqsUpTo(0..MaxLineLen, MaxSchemeLen)}

\* The locals of the three functions when none of them is running.
NoLocals ==
    /\ rhymes = EmptyDict /\ line_num = 0 /\ end = <<>> /\ line = <<>>
    /\ output = <<>> /\ sentence = <<>> /\ curr_word = <<>> /\ length = 0
    /\ step = 0 /\ word = <<>> /\ res = <<>> /\ ret = None /\ calls = <<>>

InitWith(lengths) ==
    /\ texts \in Corpora
    /\ scheme_arg \in Schemes
    /\ lengths_arg \in lengths
    /\ chaindict = EmptyDict
    /\ endings = <<>>
    /\ settings = NoSettings
    /\ used_rhymes = <<>>
    /\ NoLocals
    /\ poems = 0
    /\ exc = ""
    /\ pc = "new"

\* A program that builds a chain, uniform settings and a composer.
Init == InitWith(UniformLengths)

\* A program that builds settings from any line_lengths argument.
InitSettings == InitWith(UniformLengths \cup ExplicitLengths)

\* A call of generate_sentence(end, length) on a built chain.
InitSentence ==
    /\ texts \in Corpora
    /\ scheme_arg = <<>>
    /\ lengths_arg = IntArg(0)
    /\ chaindict = generate_chain(texts)
    /\ endings = collect_endings(texts)
    /\ settings = NoSettings
    /\ used_rhymes = <<>>
    /\ rhymes = EmptyDict /\ line_num = 0 /\ line = <<>> /\ output = <<>>
    /\ word = <<>> /\ res = <<>> /\ ret = None /\ calls = <<>>
    /\ end \in Vocabulary \cup CandWords
    /\ length \in 0..MaxLineLen
    /\ sentence = <<>>
    /\ curr_word = end
    /\ step = 0
    /\ poems = 0
    /\ exc = ""
    /\ pc = "sentence"

\* raise: the exception leaves generate_poem; the generator is finished.
Raise(e) ==
    /\ exc' = e
    /\ pc' = "raised"

\* ReverseMarkovChain.__init__
BuildChain ==
    /\ pc = "new"
    /\ chaindict' = generate_chain(texts)
    /\ endings' = collect_endings(texts)
    /\ pc' = "chain"
    /\ UNCHANGED <<texts, scheme_arg, lengths_arg, settings, used_rhymes, rhymes,
                   line_num, end, line, output, sentence, curr_word, length,
                   step, word, res, ret, calls, poems, exc>>

\* settings = PoemSettings.from_rhyme_scheme(rhyme_scheme, line_lengths)
BuildSettings ==
    /\ pc = "chain"
    /\ settings' = from_rhyme_scheme(scheme_arg, lengths_arg)
    /\ pc' = "settings"
    /\ UNCHANGED <<texts, scheme_arg, lengths_arg, chaindict, endings, used_rhymes,
                   rhymes, line_num, end, line, output, sentence, curr_word,
                   length, step, word, res, ret, calls, poems, exc>>

\* MarkovPoem.__init__
NewComposer ==
    /\ pc = "settings"
    /\ used_rhymes' = <<>>
    /\ pc' = "ready"
    /\ UNCHANGED <<texts, scheme_arg, lengths_arg, chaindict, endings, settings,
                   rhymes, line_num, end, line, output, sentence, curr_word,
                   length, step, word, res, ret, calls, poems, exc>>

\* generate_poem's first statement: rhymes = {}; used_rhymes is left as it is
StartPoemState ==
    /\ rhymes' = EmptyDict
    /\ UNCHANGED used_rhymes

\* generate_poem() is called on the composer and its generator is started:
\* from one of the positions in from.
StartPoemFrom(from) ==
    /\ pc \in from
    /\ poems < MaxPoems
    /\ poems' = poems + 1
    /\ StartPoemState
    /\ line_num' = 0
    /\ output' = <<>>
    /\ exc' = ""
    /\ pc' = "loop"
    /\ end' = <<>> /\ line' = <<>> /\ sentence' = <<>> /\ curr_word' = <<>>
    /\ length' = 0 /\ step' = 0 /\ word' = <<>> /\ res' = <<>> /\ ret' = None
    /\ calls' = <<>>
    /\ UNCHANGED <<texts, scheme_arg, lengths_arg, chaindict, endings, settings>>

Blank == [kind |-> "blank", words |-> <<>>]

LineItem(ws) == [kind |-> "line", words |-> ws]

\* the truth value of an Optional[str]
Truthy(opt) == opt # None /\ opt[1] # <<>>

\* rhymes.get(line_num)
Pending(n) == IF n \in DOMAIN rhymes THEN rhymes[n] ELSE None

\* if line_num in self.settings.break_lines: yield ""
WithBreak(out, n) ==
    IF n \in settings.break_lines THEN Append(out, Blank) ELSE out

\* A mutant of EndChoices: the pending rhyme word is ignored.
EndChoicesRandom(n) == {endings[i] : i \in 1..Len(endings)}

\* rhymes.get(line_num) or random.choice(self.chain.endings): the words it can
\* give; none when random.choice raises IndexError on an empty list
EndChoices(n) ==
    IF Truthy(Pending(n)) THEN {Pending(n)[1]}
    ELSE {endings[i] : i \in 1..Len(endings)}

\* The for loop of generate_poem is over: the generator is exhausted.
PoemDone ==
    /\ pc = "loop"
    /\ line_num >= Len(settings.line_lengths)
    /\ pc' = "done"
    /\ UNCHANGED <<texts, scheme_arg, lengths_arg, chaindict, endings, settings,
                   used_rhymes, rhymes, line_num, end, line, output, sentence,
                   curr_word, length, step, word, res, ret, calls, poems, exc>>

\* One iteration of generate_poem up to the call of generate_sentence.
BeginLine ==
    /\ pc = "loop"
    /\ line_num < Len(settings.line_lengths)
    /\ output' = WithBreak(output, line_num)
    /\ \/ /\ EndChoices(line_num) = {}
          /\ Raise("IndexError")
          /\ UNCHANGED <<end, used_rhymes, sentence, curr_word, length, step>>
       \/ /\ \E e \in EndChoices(line_num) :
                /\ end' = e
                /\ used_rhymes' = Append(used_rhymes, clean_for_rhyme(e))
                /\ curr_word' = e
          /\ sentence' = <<>>
          /\ length' = settings.line_lengths[line_num + 1]
          /\ step' = 0
          /\ pc' = "sentence"
          /\ exc' = exc
    /\ UNCHANGED <<texts, scheme_arg, lengths_arg, chaindict, endings, settings,
                   rhymes, line_num, line, word, res, ret, calls, poems>>

\* self.choose_value(self.chaindict[curr_word]): the keys of positive weight
Predecessors(w) == {p \in DOMAIN chaindict[w] : chaindict[w][p] > 0}

\* A mutant of AppendWord: the word is put in front.
AppendWordFront(s, w) == <<w>> \o s

\* sentence.append(curr_word)
AppendWord(s, w) == Append(s, w)

\* One iteration of the for loop of generate_sentence.
SentenceStep ==
    /\ pc = "sentence"
    /\ step < length
    /\ sentence' = AppendWord(sentence, curr_word)
    /\ step' = step + 1
    /\ \/ /\ curr_word \in DOMAIN chaindict
          /\ curr_word' \in Predecessors(curr_word)
          /\ UNCHANGED <<pc, exc>>
       \/ /\ curr_word \notin DOMAIN chaindict
          /\ DOMAIN chaindict # {}
          /\ curr_word' \in DOMAIN chaindict
          /\ UNCHANGED <<pc, exc>>
       \/ /\ curr_word \notin DOMAIN chaindict
          /\ DOMAIN chaindict = {}
          /\ Raise("IndexError")
          /\ UNCHANGED curr_word
    /\ UNCHANGED <<texts, scheme_arg, lengths_arg, chaindict, endings, settings,
                   used_rhymes, rhymes, line_num, end, line, output, length,
                   word, res, ret, calls, poems>>

\* return sentence[::-1]
SentenceReturn ==
    /\ pc = "sentence"
    /\ step >= length
    /\ line' = Reverse(sentence)
    /\ pc' = "after_sentence"
    /\ UNCHANGED <<texts, scheme_arg, lengths_arg, chaindict, endings, settings,
                   used_rhymes, rhymes, line_num, end, output, sentence,
                   curr_word, length, step, word, res, ret, calls, poems, exc>>

\* line_num in self.settings.rhyme_map
HasSuccessor(n) == n \in DOMAIN settings.rhyme_map

\* yield line, and the loop goes to the next line_num
YieldLine ==
    /\ output' = Append(output, LineItem(line))
    /\ line_num' = line_num + 1
    /\ pc' = "loop"
    /\ end' = <<>> /\ line' = <<>> /\ sentence' = <<>> /\ curr_word' = <<>>
    /\ length' = 0 /\ step' = 0 /\ word' = <<>> /\ res' = <<>> /\ ret' = None
    /\ calls' = <<>>

\* generate_poem after generate_sentence: the line is yielded, or get_rhyme is
\* called with line[-1], which raises IndexError on an empty line.
AfterSentence ==
    /\ pc = "after_sentence"
    /\ \/ /\ ~HasSuccessor(line_num)
          /\ YieldLine
          /\ UNCHANGED <<rhymes, exc>>
       \/ /\ HasSuccessor(line_num)
          /\ line = <<>>
          /\ Raise("IndexError")
          /\ UNCHANGED <<rhymes, line_num, end, line, output, sentence,
                         curr_word, length, step, word, res, ret, calls>>
       \/ /\ HasSuccessor(line_num)
          /\ line # <<>>
          /\ word' = clean_for_rhyme(Last(line))
          /\ res' = <<>>
          /\ pc' = "get_rhyme"
          /\ UNCHANGED <<rhymes, line_num, end, line, output, sentence,
                         curr_word, length, step, ret, calls, exc>>
    /\ UNCHANGED <<texts, scheme_arg, lengths_arg, chaindict, endings, settings,
                   used_rhymes, poems>>

\* A mutant of Accepted: a used rhyme is accepted again.
AcceptedUsed(rhyme) == rhyme \in DOMAIN chaindict

\* rhyme in self.chain.chaindict and rhyme not in self.used_rhymes
Accepted(rhyme) ==
    /\ rhyme \in DOMAIN chaindict
    /\ \A i \in 1..Len(used_rhymes) : used_rhymes[i] # rhyme

\* for rhyme_info in res.json(): ... return rhyme
RECURSIVE ScanFrom(_, _)
ScanFrom(ws, i) ==
    IF i > Len(ws) THEN None
    ELSE IF Accepted(ws[i]) THEN Some(ws[i]) ELSE ScanFrom(ws, i + 1)

FirstAccepted(ws) == ScanFrom(ws, 1)

\* A mutant of MoreUrls: the near-rhyme url is queried although a rhyme was found.
MoreUrlsAlways(found, asked) == asked < Len(Relations)

\* whether the for loop over urls goes on after a url's answer was scanned
MoreUrls(found, asked) == found = None /\ asked < Len(Relations)

\* One iteration of get_rhyme's loop over urls: res = requests.get(url) and
\* the scan of res.json().
Query ==
    /\ pc = "get_rhyme"
    /\ Len(calls) < Len(Relations)
    /\ calls' = Append(calls, Relations[Len(calls) + 1])
    /\ \E answer \in Answers :
          \/ /\ ~answer.ok
             /\ Raise("RequestException")
             /\ UNCHANGED <<res, ret>>
          \/ /\ answer.ok
             /\ res' = answer.words
             /\ LET found == FirstAccepted(answer.words)
                IN  IF MoreUrls(found, Len(calls) + 1)
                    THEN pc' = "get_rhyme" /\ ret' = ret
                    ELSE pc' = "return_rhyme" /\ ret' = found
             /\ exc' = exc
    /\ UNCHANGED <<texts, scheme_arg, lengths_arg, chaindict, endings, settings,
                   used_rhymes, rhymes, line_num, end, line, output, sentence,
                   curr_word, length, step, word, poems>>

\* rhymes[self.settings.rhyme_map[line_num]] = <get_rhyme's value>; yield line
StoreRhyme ==
    /\ pc = "return_rhyme"
    /\ rhymes' = Assign(rhymes, settings.rhyme_map[line_num], ret)
    /\ YieldLine
    /\ UNCHANGED <<texts, scheme_arg, lengths_arg, chaindict, endings, settings,
                   used_rhymes, poems, exc>>

\* The first generate_poem() on a new composer.
StartPoem == StartPoemFrom({"ready"})

\* Another generate_poem() on the same composer, after the last one ended.
StartPoemAgain == StartPoemFrom({"done", "raised"})

Build == BuildChain \/ BuildSettings \/ NewComposer

Generate ==
    \/ StartPoem \/ PoemDone \/ BeginLine \/ SentenceStep \/ SentenceReturn
    \/ AfterSentence \/ Query \/ StoreRhyme

Next == Build \/ Generate

NextSettings == BuildChain \/ BuildSettings

NextSentence == SentenceStep \/ SentenceReturn

NextReuse == Next \/ StartPoemAgain

\* A program that builds a composer and generates one poem with it.
Spec == Init /\ [][Next]_vars

\* A program that generates up to MaxPoems poems with the same composer.
SpecReuse == Init /\ [][NextReuse]_vars

\* The construction of the settings alone.
SpecSettings == InitSettings /\ [][NextSettings]_vars

\* generate_sentence alone.
SpecSentence == InitSentence /\ [][NextSentence]_vars

(***************************************************************************)
(* Properties.                                                             *)
(***************************************************************************)
\* The lines yielded so far, in order: the line of index i is LinesOut[i + 1].
LinesOut == SelectSeq(output, LAMBDA item : item.kind = "line")

\* The rhyme labels of the scheme, one per line.
Labels == SelectSeq(scheme_arg, LAMBDA c : c # "/")

\* Whether the candidate w qualifies: a key of the table, not a used rhyme.
Qualifies(w) ==
    /\ w \in DOMAIN chaindict
    /\ w \notin {used_rhymes[i] : i \in 1..Len(used_rhymes)}

\* C1, as amended: on a chain with at least one key generate_sentence(end, L)
\* raises nothing and returns exactly L words; for L >= 1 the last one is end.
C1_SentenceLengthAndEnd ==
    DOMAIN chaindict # {} =>
        /\ pc # "raised"
        /\ pc = "after_sentence" =>
              /\ Len(line) = length
              /\ length >= 1 => Last(line) = end

\* C1, as stated: for every L the result has L words and its last element is end.
C1_Original ==
    (DOMAIN chaindict # {} /\ pc = "after_sentence") =>
        /\ Len(line) = length
        /\ Len(line) >= 1
        /\ Last(line) = end

\* C1's case: an end word that is no key, and a returned sentence in which a
\* word without predecessor was followed by a random known word.
C1_Witness ==
    /\ pc = "after_sentence"
    /\ DOMAIN chaindict # {}
    /\ end \notin DOMAIN chaindict
    /\ length >= 2
    /\ Len(line) = length

\* C2: no settings are built whose line_lengths differ in length from the
\* line count parsed from the scheme.
C2_NoLengthMismatch ==
    pc = "settings" =>
        Len(settings.line_lengths) = parse_rhyme_scheme(scheme_arg).line_num

C4_ServiceFailureRecovered == exc # "RequestException"

\* The chain has no transition, or no line ending.
EmptyModel == DOMAIN chaindict = {} \/ endings = <<>>

\* C5: on an empty model a poem of at least one line yields no line and does
\* not end as if it had succeeded.
C5_EmptyModelIsAnError ==
    (EmptyModel /\ pc \notin {"new", "chain", "settings", "ready"}
                /\ Len(settings.line_lengths) >= 1) =>
        /\ LinesOut = <<>>
        /\ pc # "done"

\* C6: rhyme_map links exactly the consecutive lines of each rhyme label: a
\* label occurring k times gives k-1 entries, every entry goes to a larger
\* index below the line count, and no line is the target of two entries.
C6_RhymeMapIsChain ==
    pc = "settings" =>
        LET map == settings.rhyme_map
            n   == Len(Labels)
            Occ(c) == {i \in 0..(n - 1) : Labels[i + 1] = c}
        IN  /\ DOMAIN map \subseteq 0..(n - 1)
            /\ \A i \in 0..(n - 1), j \in 0..(n - 1) :
                  (i \in DOMAIN map /\ map[i] = j) <=>
                      /\ i < j
                      /\ Labels[i + 1] = Labels[j + 1]
                      /\ \A m \in (i + 1)..(j - 1) : Labels[m + 1] # Labels[i + 1]
            /\ \A i \in DOMAIN map : i < map[i] /\ map[i] < n
            /\ \A i \in DOMAIN map, j \in DOMAIN map : map[i] = map[j] => i = j
            /\ \A c \in SchemeChars \ {"/"} :
                  Cardinality({i \in DOMAIN map : Labels[i + 1] = c})
                      = IF Occ(c) = {} THEN 0 ELSE Cardinality(Occ(c)) - 1

\* C6's case: a label that occurs three times, giving a chain of two entries.
C6_Witness ==
    /\ pc = "settings"
    /\ \E i \in DOMAIN settings.rhyme_map :
          settings.rhyme_map[i] \in DOMAIN settings.rhyme_map

\* C7: when a poem starts, the pending rhyme words and the used rhymes are empty.
C7_SessionResetPerPoem ==
    (pc = "loop" /\ line_num = 0) =>
        /\ rhymes = EmptyDict
        /\ used_rhymes = <<>>

\* C8: get_rhyme asks for strict rhymes, then for near rhymes, the latter only
\* when no strict candidate qualified; it returns the first candidate of the
\* answer, in the answer's order, that is a key of the table and no used rhyme,
\* and None exactly when both answers hold no such candidate.
C8_FirstQualifyingCandidate ==
    /\ pc \in {"get_rhyme", "return_rhyme"} =>
          /\ calls = SubSeq(Relations, 1, Len(calls))
          /\ word = clean_for_rhyme(Last(line))
    /\ (pc = "get_rhyme" /\ calls # <<>>) =>
          /\ calls = <<"rel_rhy">>
          /\ \A i \in 1..Len(res) : ~Qualifies(res[i])
    /\ pc = "return_rhyme" =>
          /\ calls # <<>>
          /\ IF ret = None
             THEN /\ calls = Relations
                  /\ \A i \in 1..Len(res) : ~Qualifies(res[i])
             ELSE \E i \in 1..Len(res) :
                     /\ res[i] = ret[1]
                     /\ Qualifies(res[i])
                     /\ \A j \in 1..(i - 1) : ~Qualifies(res[j])

\* C8's case: the strict answer had no qualifying candidate, and the near
\* answer's second candidate is returned because its first did not qualify.
C8_Witness ==
    /\ pc = "return_rhyme"
    /\ calls = Relations
    /\ ret # None
    /\ Len(res) >= 2
    /\ res[1] # ret[1]
    /\ res[2] = ret[1]

\* The kinds of the items a whole poem consists of, from line index i on.
RECURSIVE ExpectedKinds(_, _, _)
ExpectedKinds(i, n, breaks) ==
    IF i >= n THEN <<>>
    ELSE (IF i \in breaks THEN <<"blank">> ELSE <<>>) \o <<"line">>
         \o ExpectedKinds(i + 1, n, breaks)

\* C9: an ended generation has yielded one line per line index, in order, with
\* a blank marker before exactly the lines of break_lines, and nothing else.
C9_PoemShape ==
    pc \in {"done", "raised"} =>
        [i \in 1..Len(output) |-> output[i].kind]
            = ExpectedKinds(0, Len(Labels), settings.break_lines)

\* C10: for one line the service is asked at most once per relation, in the
\* order of the relations, only when the line has a successor in rhyme_map, and
\* for near rhymes only after a strict answer without qualifying candidate.
C10_AtMostTwoCalls ==
    /\ Len(calls) <= 2
    /\ calls = SubSeq(Relations, 1, Len(calls))
    /\ calls # <<>> => line_num \in DOMAIN settings.rhyme_map
    /\ pc = "get_rhyme" => \A i \in 1..Len(res) : ~Qualifies(res[i])

\* C10's case: both relations were queried for a line with a successor.
C10_Witness ==
    /\ pc = "return_rhyme"
    /\ Len(calls) = 2
    /\ line_num \in DOMAIN settings.rhyme_map

====
